---- MODULE Spec2Model ----
(***************************************************************************)
(* Model of the document pipeline of doc-intel-starter:                    *)
(*   pdf_utils.extract_text  -> RouterAgent.classify -> InvoiceAgent.extract *)
(* Text is a sequence of one-character strings.  A JSON value is a record  *)
(* of one fixed shape (tag t, string s, number m * 10^-k, array items,     *)
(* object fields), so that values of different JSON types can be compared. *)
(***************************************************************************)
EXTENDS Integers, Sequences, FiniteSets, TLC

\* ---------------------------------------------------------------------
\* Bounds of the model
\* ---------------------------------------------------------------------

\* an object body of a backend response has at most this many members
MaxMembers == 2

\* padded responses are up to this many characters longer or shorter than
\* the excerpt limit
ExtraPad == 1

\* the OCR result has at most this many pages
MaxPages == 2

\* ---------------------------------------------------------------------
\* Program constants
\* ---------------------------------------------------------------------

\* response_text[:200]
MaxExcerpt == 200

\* ---------------------------------------------------------------------
\* Character sequences of the string literals of the program
\* ---------------------------------------------------------------------

K_document_type == <<"d", "o", "c", "u", "m", "e", "n", "t", "_", "t", "y", "p", "e">>
K_confidence == <<"c", "o", "n", "f", "i", "d", "e", "n", "c", "e">>
K_vendor_name == <<"v", "e", "n", "d", "o", "r", "_", "n", "a", "m", "e">>
K_project_name == <<"p", "r", "o", "j", "e", "c", "t", "_", "n", "a", "m", "e">>
K_document_date == <<"d", "o", "c", "u", "m", "e", "n", "t", "_", "d", "a", "t", "e">>
K_amount == <<"a", "m", "o", "u", "n", "t">>
K_reasoning == <<"r", "e", "a", "s", "o", "n", "i", "n", "g">>
K_invoice_number == <<"i", "n", "v", "o", "i", "c", "e", "_", "n", "u", "m", "b", "e", "r">>
K_vendor_abn == <<"v", "e", "n", "d", "o", "r", "_", "a", "b", "n">>
K_invoice_date == <<"i", "n", "v", "o", "i", "c", "e", "_", "d", "a", "t", "e">>
K_due_date == <<"d", "u", "e", "_", "d", "a", "t", "e">>
K_project_reference == <<"p", "r", "o", "j", "e", "c", "t", "_", "r", "e", "f", "e", "r", "e", "n", "c", "e">>
K_description == <<"d", "e", "s", "c", "r", "i", "p", "t", "i", "o", "n">>
K_line_items == <<"l", "i", "n", "e", "_", "i", "t", "e", "m", "s">>
K_subtotal == <<"s", "u", "b", "t", "o", "t", "a", "l">>
K_gst_amount == <<"g", "s", "t", "_", "a", "m", "o", "u", "n", "t">>
K_total_inc_gst == <<"t", "o", "t", "a", "l", "_", "i", "n", "c", "_", "g", "s", "t">>
K_payment_terms == <<"p", "a", "y", "m", "e", "n", "t", "_", "t", "e", "r", "m", "s">>
K_error == <<"e", "r", "r", "o", "r">>
K_meta == <<"_", "m", "e", "t", "a">>
K_model == <<"m", "o", "d", "e", "l">>
K_prompt_version == <<"p", "r", "o", "m", "p", "t", "_", "v", "e", "r", "s", "i", "o", "n">>
S_invoice == <<"i", "n", "v", "o", "i", "c", "e">>
S_progress_claim == <<"p", "r", "o", "g", "r", "e", "s", "s", "_", "c", "l", "a", "i", "m">>
S_contract == <<"c", "o", "n", "t", "r", "a", "c", "t">>
S_variation == <<"v", "a", "r", "i", "a", "t", "i", "o", "n">>
S_settlement == <<"s", "e", "t", "t", "l", "e", "m", "e", "n", "t">>
S_unknown == <<"u", "n", "k", "n", "o", "w", "n">>
S_model == <<"c", "l", "a", "u", "d", "e", "-", "s", "o", "n", "n", "e", "t", "-", "4", "-", "2", "0", "2", "5", "0", "5", "1", "4">>
S_v1 == <<"v", "1">>
S_failed == <<"F", "a", "i", "l", "e", "d", " ", "t", "o", " ", "p", "a", "r", "s", "e", " ", "r", "e", "s", "p", "o", "n", "s", "e", ":", " ">>
\* the grave accent cannot be written inside a TLA+ string literal: this
\* atom stands for the character U+0060
Backtick == "backtick"

S_fence_json == <<Backtick, Backtick, Backtick, "j", "s", "o", "n">>
S_fence == <<Backtick, Backtick, Backtick>>

\* ---------------------------------------------------------------------
\* Values: what json.loads produces and what the agents return
\* ---------------------------------------------------------------------

EmptyDict == <<>>

JNull == [t |-> "null", s |-> <<>>, m |-> 0, k |-> 0, items |-> <<>>, fields |-> EmptyDict]

JBool(b) == [JNull EXCEPT !.t = IF b THEN "true" ELSE "false"]

JSpecial(name) == [JNull EXCEPT !.t = name]

JStr(cs) == [JNull EXCEPT !.t = "str", !.s = cs]

JNum(mant, scale) == [JNull EXCEPT !.t = "num", !.m = mant, !.k = scale]

JArr(vals) == [JNull EXCEPT !.t = "arr", !.items = vals]

JObj(f) == [JNull EXCEPT !.t = "obj", !.fields = f]

\* d[key] = val on a dict: the key is added or its value replaced
SetItem(d, key, val) == [x \in (DOMAIN d) \cup {key} |-> IF x = key THEN val ELSE d[x]]

\* the dict built from a sequence of (key, value) pairs: a later pair of the
\* same key replaces the earlier one
RECURSIVE DictOf(_)
DictOf(pairs) ==
    IF pairs = <<>> THEN EmptyDict
    ELSE LET n == Len(pairs)
         IN SetItem(DictOf(SubSeq(pairs, 1, n - 1)), pairs[n].key, pairs[n].val)

\* ---------------------------------------------------------------------
\* json.loads
\* ---------------------------------------------------------------------

JSONWhitespace == {" ", "\t", "\n", "\r"}

Digits == {"0", "1", "2", "3", "4", "5", "6", "7", "8", "9"}

DigitVal(c) ==
    CASE c = "0" -> 0 [] c = "1" -> 1 [] c = "2" -> 2 [] c = "3" -> 3 [] c = "4" -> 4
      [] c = "5" -> 5 [] c = "6" -> 6 [] c = "7" -> 7 [] c = "8" -> 8 [] c = "9" -> 9

\* characters a strict decoder refuses unescaped inside a string
ControlChars == {"\t", "\n", "\r", "\f"}

\* the one-character escapes of a JSON string and what they stand for
Unescape(c) ==
    CASE c = "\"" -> "\"" [] c = "\\" -> "\\" [] c = "/" -> "/" [] c = "b" -> "\\b"
      [] c = "f" -> "\f" [] c = "n" -> "\n" [] c = "r" -> "\r" [] c = "t" -> "\t"

SimpleEscapes == {"\"", "\\", "/", "b", "f", "n", "r", "t"}

HexDigits == Digits \cup {"a", "b", "c", "d", "e", "f", "A", "B", "C", "D", "E", "F"}

ParseFail == [ok |-> FALSE, val |-> JNull, next |-> 0]

ParseOk(v, i) == [ok |-> TRUE, val |-> v, next |-> i]

\* whether the literal lit stands in txt at position i
LitAt(txt, i, lit) ==
    /\ i + Len(lit) - 1 <= Len(txt)
    /\ SubSeq(txt, i, i + Len(lit) - 1) = lit

RECURSIVE SkipWS(_, _)
SkipWS(txt, i) ==
    IF i <= Len(txt) /\ txt[i] \in JSONWhitespace THEN SkipWS(txt, i + 1) ELSE i

\* the first position at or after i that does not hold a digit
RECURSIVE SkipDigits(_, _)
SkipDigits(txt, i) ==
    IF i <= Len(txt) /\ txt[i] \in Digits THEN SkipDigits(txt, i + 1) ELSE i

\* the number written by the digits of txt[i..j-1], continuing from acc
RECURSIVE DigitsVal(_, _, _, _)
DigitsVal(txt, i, j, acc) ==
    IF i >= j THEN acc ELSE DigitsVal(txt, i + 1, j, 10 * acc + DigitVal(txt[i]))

RECURSIVE Pow10(_)
Pow10(n) == IF n <= 0 THEN 1 ELSE 10 * Pow10(n - 1)

\* mant * 10^-scale with the trailing zeros of the fraction removed, so that
\* equal numbers have equal representations
RECURSIVE Normalise(_, _)
Normalise(mant, scale) ==
    IF scale > 0 /\ mant % 10 = 0 THEN Normalise(mant \div 10, scale - 1)
    ELSE JNum(mant, scale)

\* a string body from position i (after the opening quote) to its closing quote
RECURSIVE ScanString(_, _, _)
ScanString(txt, i, acc) ==
    IF i > Len(txt) THEN ParseFail
    ELSE IF txt[i] = "\"" THEN ParseOk(JStr(acc), i + 1)
    ELSE IF txt[i] = "\\" THEN
        IF i + 1 > Len(txt) THEN ParseFail
        ELSE IF txt[i + 1] \in SimpleEscapes
            THEN ScanString(txt, i + 2, Append(acc, Unescape(txt[i + 1])))
        ELSE IF /\ txt[i + 1] = "u"
                /\ i + 5 <= Len(txt)
                /\ \A j \in (i + 2)..(i + 5) : txt[j] \in HexDigits
            THEN ScanString(txt, i + 6,
                            Append(acc, "\\u" \o txt[i + 2] \o txt[i + 3] \o txt[i + 4] \o txt[i + 5]))
        ELSE ParseFail
    ELSE IF txt[i] \in ControlChars THEN ParseFail
    ELSE ScanString(txt, i + 1, Append(acc, txt[i]))

\* the number mant * 10^(exp - scale)
MakeNumber(mant, scale, exp) ==
    IF exp >= scale THEN JNum(mant * Pow10(exp - scale), 0)
    ELSE Normalise(mant, scale - exp)

\* the end of the integer part (0|[1-9][0-9]*) that starts at i0
IntEnd(txt, i0) ==
    IF i0 <= Len(txt) /\ txt[i0] = "0" THEN i0 + 1 ELSE SkipDigits(txt, i0)

\* the end of the fraction (\.[0-9]+)? that starts at i1
FracEnd(txt, i1) ==
    IF i1 + 1 <= Len(txt) /\ txt[i1] = "." /\ txt[i1 + 1] \in Digits
    THEN SkipDigits(txt, i1 + 1) ELSE i1

\* the first digit of the exponent ([eE][-+]?[0-9]+)? that starts at i2,
\* 0 if no exponent stands there
ExpDigits(txt, i2) ==
    IF i2 > Len(txt) \/ txt[i2] \notin {"e", "E"} THEN 0
    ELSE IF i2 + 1 <= Len(txt) /\ txt[i2 + 1] \in Digits THEN i2 + 1
    ELSE IF i2 + 2 <= Len(txt) /\ txt[i2 + 1] \in {"+", "-"} /\ txt[i2 + 2] \in Digits
        THEN i2 + 2
    ELSE 0

\* the number whose integer part is txt[i0..i1-1], fraction txt[i1+1..i2-1]
\* and exponent digits txt[e0..i3-1] (none if e0 = 0)
NumberValue(txt, sign, i0, i1, i2, e0, i3) ==
    MakeNumber(sign * DigitsVal(txt, i1 + 1, i2, DigitsVal(txt, i0, i1, 0)),
               IF i2 > i1 THEN i2 - (i1 + 1) ELSE 0,
               IF e0 = 0 THEN 0
               ELSE IF txt[e0 - 1] = "-" THEN 0 - DigitsVal(txt, e0, i3, 0)
               ELSE DigitsVal(txt, e0, i3, 0))

NumberExp(txt, sign, i0, i1, i2, e0, i3) ==
    ParseOk(NumberValue(txt, sign, i0, i1, i2, e0, i3), i3)

NumberFrac(txt, sign, i0, i1, i2, e0) ==
    NumberExp(txt, sign, i0, i1, i2, e0, IF e0 = 0 THEN i2 ELSE SkipDigits(txt, e0))

NumberInt(txt, sign, i0, i1) ==
    IF i1 = i0 THEN ParseFail
    ELSE NumberFrac(txt, sign, i0, i1, FracEnd(txt, i1), ExpDigits(txt, FracEnd(txt, i1)))

\* NUMBER_RE: -?(0|[1-9][0-9]*)(\.[0-9]+)?([eE][-+]?[0-9]+)? matched at i
ScanNumber(txt, i) ==
    IF i <= Len(txt) /\ txt[i] = "-" THEN NumberInt(txt, 0 - 1, i + 1, IntEnd(txt, i + 1))
    ELSE NumberInt(txt, 1, i, IntEnd(txt, i))

RECURSIVE ScanValue(_, _), ScanArray(_, _, _), ScanObject(_, _, _)

\* what scan_once makes of position i when no string, object, array, null,
\* true or false starts there: num is the match of NUMBER_RE
NumberOrConstant(txt, i, num) ==
    IF num.ok THEN num
    ELSE IF LitAt(txt, i, <<"N", "a", "N">>) THEN ParseOk(JSpecial("NaN"), i + 3)
    ELSE IF LitAt(txt, i, <<"I", "n", "f", "i", "n", "i", "t", "y">>)
        THEN ParseOk(JSpecial("Infinity"), i + 8)
    ELSE IF LitAt(txt, i, <<"-", "I", "n", "f", "i", "n", "i", "t", "y">>)
        THEN ParseOk(JSpecial("-Infinity"), i + 9)
    ELSE ParseFail

\* JSONObject after the opening brace and whitespace, at position j
ObjectStart(txt, j) ==
    IF j <= Len(txt) /\ txt[j] = "}" THEN ParseOk(JObj(EmptyDict), j + 1)
    ELSE ScanObject(txt, j, <<>>)

\* JSONArray after the opening bracket and whitespace, at position j
ArrayStart(txt, j) ==
    IF j <= Len(txt) /\ txt[j] = "]" THEN ParseOk(JArr(<<>>), j + 1)
    ELSE ScanArray(txt, j, <<>>)

\* scan_once: the value that starts at position i
ScanValue(txt, i) ==
    IF i > Len(txt) THEN ParseFail
    ELSE IF txt[i] = "\"" THEN ScanString(txt, i + 1, <<>>)
    ELSE IF txt[i] = "{" THEN ObjectStart(txt, SkipWS(txt, i + 1))
    ELSE IF txt[i] = "[" THEN ArrayStart(txt, SkipWS(txt, i + 1))
    ELSE IF LitAt(txt, i, <<"n", "u", "l", "l">>) THEN ParseOk(JNull, i + 4)
    ELSE IF LitAt(txt, i, <<"t", "r", "u", "e">>) THEN ParseOk(JBool(TRUE), i + 4)
    ELSE IF LitAt(txt, i, <<"f", "a", "l", "s", "e">>) THEN ParseOk(JBool(FALSE), i + 5)
    ELSE NumberOrConstant(txt, i, ScanNumber(txt, i))

\* after the elements vals of an array, at position j: the end of the array
\* or a comma and the next element
ArrayDelimiter(txt, vals, j) ==
    IF j > Len(txt) THEN ParseFail
    ELSE IF txt[j] = "]" THEN ParseOk(JArr(vals), j + 1)
    ELSE IF txt[j] = "," THEN ScanArray(txt, SkipWS(txt, j + 1), vals)
    ELSE ParseFail

ArrayElement(txt, acc, v) ==
    IF ~v.ok THEN ParseFail
    ELSE ArrayDelimiter(txt, Append(acc, v.val), SkipWS(txt, v.next))

\* the elements of an array from position i (at an element), after acc
ScanArray(txt, i, acc) == ArrayElement(txt, acc, ScanValue(txt, i))

\* after the members pairs of an object, at position j: the end of the
\* object or a comma and the next member
ObjectDelimiter(txt, pairs, j) ==
    IF j > Len(txt) THEN ParseFail
    ELSE IF txt[j] = "}" THEN ParseOk(JObj(DictOf(pairs)), j + 1)
    ELSE IF txt[j] = "," THEN ScanObject(txt, SkipWS(txt, j + 1), pairs)
    ELSE ParseFail

ObjectValue(txt, acc, key, v) ==
    IF ~v.ok THEN ParseFail
    ELSE ObjectDelimiter(txt, Append(acc, [key |-> key, val |-> v.val]), SkipWS(txt, v.next))

\* after the key of a member, at position c: the colon and the value
ObjectColon(txt, acc, key, c) ==
    IF c > Len(txt) \/ txt[c] # ":" THEN ParseFail
    ELSE ObjectValue(txt, acc, key, ScanValue(txt, SkipWS(txt, c + 1)))

ObjectKey(txt, acc, key) ==
    IF ~key.ok THEN ParseFail
    ELSE ObjectColon(txt, acc, key.val.s, SkipWS(txt, key.next))

\* the members of an object from position i (at a key), after the pairs acc
ScanObject(txt, i, acc) ==
    IF i > Len(txt) \/ txt[i] # "\"" THEN ParseFail
    ELSE ObjectKey(txt, acc, ScanString(txt, i + 1, <<>>))

\* the end of json.loads: only whitespace may follow the value
WholeText(txt, r) ==
    IF r.ok /\ SkipWS(txt, r.next) = Len(txt) + 1 THEN r ELSE ParseFail

\* json.loads(txt): ok is FALSE where it raises json.JSONDecodeError
json_loads(txt) == WholeText(txt, ScanValue(txt, SkipWS(txt, 1)))

\* ---------------------------------------------------------------------
\* String operations of the agents
\* ---------------------------------------------------------------------

\* the first position at or after i where old stands in txt, 0 if none
NextMatch(txt, old, i) ==
    LET found == {j \in i..(Len(txt) - Len(old) + 1) : LitAt(txt, j, old)}
    IN IF found = {} THEN 0 ELSE CHOOSE j \in found : \A j2 \in found : j <= j2

\* str.replace(old, new) from position i on, for a non-empty old: every
\* occurrence of old, found left to right without overlap, is replaced
RECURSIVE ReplaceFrom(_, _, _, _)
ReplaceFrom(txt, old, new, i) ==
    LET j == NextMatch(txt, old, i)
    IN IF j = 0 THEN SubSeq(txt, i, Len(txt))
       ELSE SubSeq(txt, i, j - 1) \o new \o ReplaceFrom(txt, old, new, j + Len(old))

replace(txt, old, new) == ReplaceFrom(txt, old, new, 1)

\* the whitespace str.strip() removes, among the characters of the model
PyWhitespace == {" ", "\t", "\n", "\r", "\f"}

\* str.strip(): the text between its first and its last character that is
\* not whitespace
strip(txt) ==
    LET kept == {i \in 1..Len(txt) : txt[i] \notin PyWhitespace}
    IN IF kept = {} THEN <<>>
       ELSE SubSeq(txt, CHOOSE i \in kept : \A i2 \in kept : i <= i2,
                        CHOOSE i \in kept : \A i2 \in kept : i >= i2)

\* a variant of Excerpt that does not truncate
ExcerptWhole(response_text) == response_text

\* response_text[:200]
Excerpt(response_text) ==
    SubSeq(response_text, 1, IF Len(response_text) < MaxExcerpt THEN Len(response_text) ELSE MaxExcerpt)

\* ---------------------------------------------------------------------
\* Outcome of a call: a returned value or a raised exception
\* ---------------------------------------------------------------------

NotCalled == [status |-> "none", value |-> JNull, exc |-> "none"]

Returned(v) == [status |-> "returned", value |-> v, exc |-> "none"]

Raised(e) == [status |-> "raised", value |-> JNull, exc |-> e]

\* what the language-model backend does with a request: it fails, or it
\* answers with a text
BackendFailure == [ok |-> FALSE, text |-> <<>>]

BackendText(txt) == [ok |-> TRUE, text |-> txt]

\* ---------------------------------------------------------------------
\* RouterAgent
\* ---------------------------------------------------------------------

DOCUMENT_TYPES == {S_invoice, S_progress_claim, S_contract, S_variation, S_settlement, S_unknown}

\* the keys of the result the docstring of classify declares
RouterKeys ==
    {K_document_type, K_confidence, K_vendor_name, K_project_name, K_document_date,
     K_amount, K_reasoning}

\* self.model and self.prompt_version of RouterAgent.__init__, as the dict
\* {"model": self.model, "prompt_version": self.prompt_version}
RouterMeta == JObj((K_model :> JStr(S_model)) @@ (K_prompt_version :> JStr(S_v1)))

\* a variant of SetMeta that keeps a "_meta" entry the dict already has
SetMetaKeep(result, meta) ==
    IF result.t = "obj"
    THEN Returned(JObj(IF K_meta \in DOMAIN result.fields THEN result.fields
                       ELSE SetItem(result.fields, K_meta, meta)))
    ELSE Raised("TypeError")

\* result["_meta"] = {...}; return result: a dict gets the entry, anything
\* else json.loads can produce supports no item assignment with a string key
SetMeta(result, meta) ==
    IF result.t = "obj" THEN Returned(JObj(SetItem(result.fields, K_meta, meta)))
    ELSE Raised("TypeError")

\* the dict of the except branch of classify
RouterFallback(response_text) ==
    JObj((K_document_type :> JStr(S_unknown))
         @@ (K_confidence :> JNum(0, 0))
         @@ (K_vendor_name :> JNull)
         @@ (K_project_name :> JNull)
         @@ (K_document_date :> JNull)
         @@ (K_amount :> JNull)
         @@ (K_reasoning :> JStr(S_failed \o Excerpt(response_text))))

\* the try statement of classify and what follows it; parsed is what
\* json.loads(response_text) gives
ClassifyParsed(response_text, parsed) ==
    SetMeta(IF parsed.ok THEN parsed.val ELSE RouterFallback(response_text), RouterMeta)

\* RouterAgent.classify, given what the backend does with its request
classify(reply) ==
    IF ~reply.ok THEN Raised("APIError")
    ELSE ClassifyParsed(reply.text, json_loads(reply.text))

\* ---------------------------------------------------------------------
\* InvoiceAgent
\* ---------------------------------------------------------------------

\* the keys of the record the system prompt of extract declares
InvoiceStringKeys ==
    {K_invoice_number, K_vendor_name, K_vendor_abn, K_invoice_date, K_due_date,
     K_project_reference, K_description, K_payment_terms}

InvoiceNumberKeys == {K_subtotal, K_gst_amount, K_total_inc_gst}

\* self.model and self.prompt_version of InvoiceAgent.__init__
InvoiceMeta == JObj((K_model :> JStr(S_model)) @@ (K_prompt_version :> JStr(S_v1)))

InvoiceKeys == InvoiceStringKeys \cup InvoiceNumberKeys \cup {K_line_items}

\* response_text.replace("```json", "").replace("```", "").strip()
StripFences(response_text) ==
    strip(replace(replace(response_text, S_fence_json, <<>>), S_fence, <<>>))

\* the dict of the except branch of extract; response_text is the text the
\* parser was given
InvoiceFallback(response_text) ==
    JObj([x \in InvoiceKeys \cup {K_error} |->
            IF x = K_line_items THEN JArr(<<>>)
            ELSE IF x = K_error THEN JStr(S_failed \o Excerpt(response_text))
            ELSE JNull])

\* the try statement of extract and what follows it; parsed is what
\* json.loads(response_text) gives
ExtractParsed(response_text, parsed) ==
    SetMeta(IF parsed.ok THEN parsed.val ELSE InvoiceFallback(response_text), InvoiceMeta)

\* extract from the reassignment of response_text on
ExtractStripped(response_text) == ExtractParsed(response_text, json_loads(response_text))

\* InvoiceAgent.extract, given what the backend does with its request
extract(reply) ==
    IF ~reply.ok THEN Raised("APIError")
    ELSE ExtractStripped(StripFences(reply.text))

\* ---------------------------------------------------------------------
\* The texts the language-model backend answers with
\* ---------------------------------------------------------------------

M_type_invoice == <<"\"", "d", "o", "c", "u", "m", "e", "n", "t", "_", "t", "y", "p", "e", "\"", ":", "\"", "i", "n", "v", "o", "i", "c", "e", "\"">>

M_type_spreadsheet == <<"\"", "d", "o", "c", "u", "m", "e", "n", "t", "_", "t", "y", "p", "e", "\"", ":", "\"", "s", "p", "r", "e", "a", "d", "s", "h", "e", "e", "t", "\"">>

M_type_contract == <<"\"", "d", "o", "c", "u", "m", "e", "n", "t", "_", "t", "y", "p", "e", "\"", ":", " ", "\"", "c", "o", "n", "t", "r", "a", "c", "t", "\"">>

M_confidence == <<"\"", "c", "o", "n", "f", "i", "d", "e", "n", "c", "e", "\"", ":", "0", ".", "9", "5">>

M_meta == <<"\"", "_", "m", "e", "t", "a", "\"", ":", "{", "\"", "m", "o", "d", "e", "l", "\"", ":", "\"", "x", "\"", "}">>

M_error == <<"\"", "e", "r", "r", "o", "r", "\"", ":", "\"", "x", "\"">>

M_description_fenced == <<"\"", "d", "e", "s", "c", "r", "i", "p", "t", "i", "o", "n", "\"", ":", "\"", "a", Backtick, Backtick, Backtick, "b", "\"">>

M_line_items == <<"\"", "l", "i", "n", "e", "_", "i", "t", "e", "m", "s", "\"", ":", "[", "{", "\"", "a", "m", "o", "u", "n", "t", "\"", ":", "1", ".", "5", "0", "}", "]">>

M_vendor_null == <<"\"", "v", "e", "n", "d", "o", "r", "_", "n", "a", "m", "e", "\"", ":", "n", "u", "l", "l">>

B_router_invoice == <<"{", "\"", "d", "o", "c", "u", "m", "e", "n", "t", "_", "t", "y", "p", "e", "\"", ":", "\"", "i", "n", "v", "o", "i", "c", "e", "\"", ",", "\"", "c", "o", "n", "f", "i", "d", "e", "n", "c", "e", "\"", ":", "0", ".", "9", "5", ",", "\"", "v", "e", "n", "d", "o", "r", "_", "n", "a", "m", "e", "\"", ":", "\"", "S", "m", "i", "t", "h", "\"", ",", "\"", "p", "r", "o", "j", "e", "c", "t", "_", "n", "a", "m", "e", "\"", ":", "\"", "L", "o", "t", " ", "4", "2", "\"", ",", "\"", "d", "o", "c", "u", "m", "e", "n", "t", "_", "d", "a", "t", "e", "\"", ":", "\"", "2", "0", "2", "4", "-", "0", "3", "-", "1", "5", "\"", ",", "\"", "a", "m", "o", "u", "n", "t", "\"", ":", "2", "4", "7", "5", "0", ".", "0", "0", ",", "\"", "r", "e", "a", "s", "o", "n", "i", "n", "g", "\"", ":", "\"", "T", "A", "X", " ", "I", "N", "V", "O", "I", "C", "E", " ", "h", "e", "a", "d", "e", "r", "\"", "}">>

B_router_unknown == <<"{", "\"", "d", "o", "c", "u", "m", "e", "n", "t", "_", "t", "y", "p", "e", "\"", ":", "\"", "u", "n", "k", "n", "o", "w", "n", "\"", ",", "\"", "c", "o", "n", "f", "i", "d", "e", "n", "c", "e", "\"", ":", "0", ".", "2", ",", "\"", "v", "e", "n", "d", "o", "r", "_", "n", "a", "m", "e", "\"", ":", "n", "u", "l", "l", ",", "\"", "p", "r", "o", "j", "e", "c", "t", "_", "n", "a", "m", "e", "\"", ":", "n", "u", "l", "l", ",", "\"", "d", "o", "c", "u", "m", "e", "n", "t", "_", "d", "a", "t", "e", "\"", ":", "n", "u", "l", "l", ",", "\"", "a", "m", "o", "u", "n", "t", "\"", ":", "n", "u", "l", "l", ",", "\"", "r", "e", "a", "s", "o", "n", "i", "n", "g", "\"", ":", "\"", "n", "o", " ", "c", "u", "e", "s", "\"", "}">>

B_router_variation == <<"{", "\n", " ", "\"", "d", "o", "c", "u", "m", "e", "n", "t", "_", "t", "y", "p", "e", "\"", ":", " ", "\"", "v", "a", "r", "i", "a", "t", "i", "o", "n", "\"", ",", "\n", " ", "\"", "c", "o", "n", "f", "i", "d", "e", "n", "c", "e", "\"", ":", " ", "0", ".", "7", ",", "\n", " ", "\"", "v", "e", "n", "d", "o", "r", "_", "n", "a", "m", "e", "\"", ":", " ", "n", "u", "l", "l", ",", "\n", " ", "\"", "p", "r", "o", "j", "e", "c", "t", "_", "n", "a", "m", "e", "\"", ":", " ", "n", "u", "l", "l", ",", "\n", " ", "\"", "d", "o", "c", "u", "m", "e", "n", "t", "_", "d", "a", "t", "e", "\"", ":", " ", "n", "u", "l", "l", ",", "\n", " ", "\"", "a", "m", "o", "u", "n", "t", "\"", ":", " ", "-", "1", "e", "2", ",", "\n", " ", "\"", "r", "e", "a", "s", "o", "n", "i", "n", "g", "\"", ":", " ", "\"", "a", " ", "\\", "\"", "c", "h", "a", "n", "g", "e", " ", "o", "r", "d", "e", "r", "\\", "\"", "\"", "\n", "}">>

B_router_spreadsheet == <<"{", "\"", "d", "o", "c", "u", "m", "e", "n", "t", "_", "t", "y", "p", "e", "\"", ":", "\"", "s", "p", "r", "e", "a", "d", "s", "h", "e", "e", "t", "\"", ",", "\"", "c", "o", "n", "f", "i", "d", "e", "n", "c", "e", "\"", ":", "0", ".", "9", ",", "\"", "v", "e", "n", "d", "o", "r", "_", "n", "a", "m", "e", "\"", ":", "n", "u", "l", "l", ",", "\"", "p", "r", "o", "j", "e", "c", "t", "_", "n", "a", "m", "e", "\"", ":", "n", "u", "l", "l", ",", "\"", "d", "o", "c", "u", "m", "e", "n", "t", "_", "d", "a", "t", "e", "\"", ":", "n", "u", "l", "l", ",", "\"", "a", "m", "o", "u", "n", "t", "\"", ":", "n", "u", "l", "l", ",", "\"", "r", "e", "a", "s", "o", "n", "i", "n", "g", "\"", ":", "\"", "c", "e", "l", "l", "s", "\"", "}">>

B_invoice_full == <<"{", "\"", "i", "n", "v", "o", "i", "c", "e", "_", "n", "u", "m", "b", "e", "r", "\"", ":", "\"", "I", "N", "V", "-", "1", "\"", ",", "\"", "v", "e", "n", "d", "o", "r", "_", "n", "a", "m", "e", "\"", ":", "\"", "S", "m", "i", "t", "h", "\"", ",", "\"", "v", "e", "n", "d", "o", "r", "_", "a", "b", "n", "\"", ":", "\"", "1", "2", " ", "3", "4", "5", " ", "6", "7", "8", " ", "9", "0", "1", "\"", ",", "\"", "i", "n", "v", "o", "i", "c", "e", "_", "d", "a", "t", "e", "\"", ":", "\"", "2", "0", "2", "4", "-", "0", "3", "-", "1", "5", "\"", ",", "\"", "d", "u", "e", "_", "d", "a", "t", "e", "\"", ":", "n", "u", "l", "l", ",", "\"", "p", "r", "o", "j", "e", "c", "t", "_", "r", "e", "f", "e", "r", "e", "n", "c", "e", "\"", ":", "n", "u", "l", "l", ",", "\"", "d", "e", "s", "c", "r", "i", "p", "t", "i", "o", "n", "\"", ":", "\"", "s", "l", "a", "b", "\"", ",", "\"", "l", "i", "n", "e", "_", "i", "t", "e", "m", "s", "\"", ":", "[", "{", "\"", "d", "e", "s", "c", "r", "i", "p", "t", "i", "o", "n", "\"", ":", "\"", "s", "l", "a", "b", "\"", ",", "\"", "q", "u", "a", "n", "t", "i", "t", "y", "\"", ":", "1", ",", "\"", "u", "n", "i", "t", "_", "p", "r", "i", "c", "e", "\"", ":", "1", ".", "5", ",", "\"", "a", "m", "o", "u", "n", "t", "\"", ":", "1", ".", "5", "}", "]", ",", "\"", "s", "u", "b", "t", "o", "t", "a", "l", "\"", ":", "2", "2", "0", "0", "0", ".", "0", "0", ",", "\"", "g", "s", "t", "_", "a", "m", "o", "u", "n", "t", "\"", ":", "2", "2", "0", "0", ".", "0", "0", ",", "\"", "t", "o", "t", "a", "l", "_", "i", "n", "c", "_", "g", "s", "t", "\"", ":", "2", "4", "2", "0", "0", ".", "0", "0", ",", "\"", "p", "a", "y", "m", "e", "n", "t", "_", "t", "e", "r", "m", "s", "\"", ":", "\"", "1", "4", " ", "d", "a", "y", "s", "\"", "}">>

B_invoice_fenced_value == <<"{", "\"", "i", "n", "v", "o", "i", "c", "e", "_", "n", "u", "m", "b", "e", "r", "\"", ":", "\"", "I", "N", "V", "-", "1", "\"", ",", "\"", "v", "e", "n", "d", "o", "r", "_", "n", "a", "m", "e", "\"", ":", "n", "u", "l", "l", ",", "\"", "v", "e", "n", "d", "o", "r", "_", "a", "b", "n", "\"", ":", "n", "u", "l", "l", ",", "\"", "i", "n", "v", "o", "i", "c", "e", "_", "d", "a", "t", "e", "\"", ":", "n", "u", "l", "l", ",", "\"", "d", "u", "e", "_", "d", "a", "t", "e", "\"", ":", "n", "u", "l", "l", ",", "\"", "p", "r", "o", "j", "e", "c", "t", "_", "r", "e", "f", "e", "r", "e", "n", "c", "e", "\"", ":", "n", "u", "l", "l", ",", "\"", "d", "e", "s", "c", "r", "i", "p", "t", "i", "o", "n", "\"", ":", "\"", "s", "e", "e", " ", Backtick, Backtick, Backtick, "j", "s", "o", "n", " ", "b", "l", "o", "c", "k", "\"", ",", "\"", "l", "i", "n", "e", "_", "i", "t", "e", "m", "s", "\"", ":", "[", "]", ",", "\"", "s", "u", "b", "t", "o", "t", "a", "l", "\"", ":", "n", "u", "l", "l", ",", "\"", "g", "s", "t", "_", "a", "m", "o", "u", "n", "t", "\"", ":", "n", "u", "l", "l", ",", "\"", "t", "o", "t", "a", "l", "_", "i", "n", "c", "_", "g", "s", "t", "\"", ":", "n", "u", "l", "l", ",", "\"", "p", "a", "y", "m", "e", "n", "t", "_", "t", "e", "r", "m", "s", "\"", ":", "n", "u", "l", "l", "}">>

B_array == <<"[", "1", ",", " ", "2", "]">>

B_number == <<"4", "2">>

B_string == <<"\"", "i", "n", "v", "o", "i", "c", "e", "\"">>

B_null == <<"n", "u", "l", "l">>

B_true == <<"t", "r", "u", "e">>

B_empty == <<>>

B_prose == <<"S", "u", "r", "e", "!", " ", "T", "h", "i", "s", " ", "i", "s", " ", "a", "n", " ", "i", "n", "v", "o", "i", "c", "e", ".">>

B_truncated == <<"{", "\"", "d", "o", "c", "u", "m", "e", "n", "t", "_", "t", "y", "p", "e", "\"", ":", "\"", "i", "n", "v", "o", "i", "c", "e", "\"">>

B_single_quotes == <<"{", "'", "d", "o", "c", "u", "m", "e", "n", "t", "_", "t", "y", "p", "e", "'", ":", "'", "i", "n", "v", "o", "i", "c", "e", "'", "}">>

B_trailing_comma == <<"{", "\"", "d", "o", "c", "u", "m", "e", "n", "t", "_", "t", "y", "p", "e", "\"", ":", "\"", "i", "n", "v", "o", "i", "c", "e", "\"", ",", "}">>

B_extra_data == <<"{", "\"", "d", "o", "c", "u", "m", "e", "n", "t", "_", "t", "y", "p", "e", "\"", ":", "\"", "i", "n", "v", "o", "i", "c", "e", "\"", "}", " ", "d", "o", "n", "e">>

B_duplicate_key == <<"{", "\"", "d", "o", "c", "u", "m", "e", "n", "t", "_", "t", "y", "p", "e", "\"", ":", "\"", "c", "o", "n", "t", "r", "a", "c", "t", "\"", ",", "\"", "d", "o", "c", "u", "m", "e", "n", "t", "_", "t", "y", "p", "e", "\"", ":", "\"", "i", "n", "v", "o", "i", "c", "e", "\"", "}">>

L_prose == <<"H", "e", "r", "e", ":", " ">>

T_OCR_line1 == <<"T", "A", "X", " ", "I", "N", "V", "O", "I", "C", "E">>

T_OCR_line2 == <<"T", "o", "t", "a", "l", " ", "2", "4", "2", "0", "0">>

\* the members an object body is made of
Members ==
    {M_type_invoice, M_type_spreadsheet, M_type_contract, M_confidence, M_meta, M_error,
     M_description_fenced, M_line_items, M_vendor_null}

\* the sequences of at most n members
RECURSIVE MemberSeqs(_)
MemberSeqs(n) ==
    IF n = 0 THEN {<<>>}
    ELSE LET shorter == MemberSeqs(n - 1)
         IN shorter \cup {Append(q, mem) : q \in {q2 \in shorter : Len(q2) = n - 1}, mem \in Members}

RECURSIVE Join(_, _)
Join(parts, sep) ==
    IF parts = <<>> THEN <<>>
    ELSE IF Len(parts) = 1 THEN parts[1]
    ELSE parts[1] \o sep \o Join(Tail(parts), sep)

ObjectBodies == {<<"{">> \o Join(q, <<",">>) \o <<"}">> : q \in MemberSeqs(MaxMembers)}

\* texts around the excerpt limit in length, none of them JSON
PadBodies == {[i \in 1..n |-> "x"] : n \in (MaxExcerpt - ExtraPad)..(MaxExcerpt + ExtraPad)}

FixedBodies ==
    {B_router_invoice, B_router_unknown, B_router_variation, B_router_spreadsheet,
     B_invoice_full, B_invoice_fenced_value, B_array, B_number, B_string, B_null, B_true,
     B_empty, B_prose, B_truncated, B_single_quotes, B_trailing_comma, B_extra_data,
     B_duplicate_key}

Bodies == ObjectBodies \cup PadBodies \cup FixedBodies

NoWrapper == [lead |-> <<>>, trail |-> <<>>]

\* ```json ... ```
FenceWrappers ==
    {[lead |-> S_fence_json, trail |-> S_fence],
     [lead |-> S_fence_json \o <<"\n">>, trail |-> <<"\n">> \o S_fence]}

\* what the backend puts around the body of its answer
Wrappers ==
    {NoWrapper, [lead |-> <<" ">>, trail |-> <<"\n">>],
     [lead |-> S_fence, trail |-> S_fence], [lead |-> L_prose, trail |-> <<>>]}
    \cup FenceWrappers

Wrap(w, body) == w.lead \o body \o w.trail

\* ---------------------------------------------------------------------
\* pdf_utils: the environment of extract_text and the OCR backend
\* ---------------------------------------------------------------------

\* os.getenv of a secret: the variable is unset, set to "", or set
SecretStates == {"unset", "empty", "set"}

\* not endpoint, not key
Falsy(secret) == secret \in {"unset", "empty"}

\* where the OCR backend fails, and the exception that step then raises
NoFault == "none"

FaultExc(fault) ==
    CASE fault = "client" -> "ValueError"
      [] fault = "open" -> "PermissionError"
      [] fault = "submit" -> "ServiceRequestError"
      [] fault = "result" -> "HttpResponseError"

Faults == {NoFault, "client", "open", "submit", "result"}

\* a page of the analysis result: its lines, lines = None, or a page whose
\* lines cannot be read
PageOf(ls) == [kind |-> "lines", lines |-> ls]

PageNoLines == [kind |-> "none", lines |-> <<>>]

PageBroken == [kind |-> "broken", lines |-> <<>>]

PageKinds == {PageOf(<<T_OCR_line1, T_OCR_line2>>), PageOf(<<T_OCR_line2>>), PageNoLines, PageBroken}

RECURSIVE PageSeqs(_)
PageSeqs(n) ==
    IF n = 0 THEN {<<>>}
    ELSE LET shorter == PageSeqs(n - 1)
         IN shorter \cup {Append(q, pg) : q \in {q2 \in shorter : Len(q2) = n - 1}, pg \in PageKinds}

Environments ==
    [path_exists : BOOLEAN, endpoint : SecretStates, key : SecretStates,
     fault : Faults, pages : PageSeqs(MaxPages)]

\* outcome of a step of extract_text: text parts or a raised exception; sent
\* tells whether the document was submitted to the OCR backend
TextNotCalled == [status |-> "none", parts |-> <<>>, exc |-> "none", cause |-> "none", sent |-> FALSE]

TextReturned(ps) == [TextNotCalled EXCEPT !.status = "returned", !.parts = ps, !.sent = TRUE]

TextRaised(e, wasSent) == [TextNotCalled EXCEPT !.status = "raised", !.exc = e, !.sent = wasSent]

\* _get_client(): the client, or the exception raised
ClientCreated == [TextNotCalled EXCEPT !.status = "returned"]

get_client(e) ==
    IF Falsy(e.endpoint) \/ Falsy(e.key) THEN TextRaised("ValueError", FALSE)
    ELSE IF e.fault = "client" THEN TextRaised(FaultExc("client"), FALSE)
    ELSE ClientCreated

\* the loops over result.pages and page.lines or [], from page i on
RECURSIVE ReadPages(_, _, _)
ReadPages(pages, i, text_parts) ==
    IF i > Len(pages) THEN TextReturned(text_parts)
    ELSE IF pages[i].kind = "broken" THEN TextRaised("AttributeError", TRUE)
    ELSE ReadPages(pages, i + 1, text_parts \o pages[i].lines)

\* the body of the try statement of extract_text
TryBody(e) ==
    IF get_client(e).status = "raised" THEN get_client(e)
    ELSE IF e.fault = "open" THEN TextRaised(FaultExc("open"), FALSE)
    ELSE IF e.fault = "submit" THEN TextRaised(FaultExc("submit"), TRUE)
    ELSE IF e.fault = "result" THEN TextRaised(FaultExc("result"), TRUE)
    ELSE LET read == ReadPages(e.pages, 1, <<>>)
         IN IF read.status = "raised" THEN read
            ELSE TextReturned(<<Join(read.parts, <<"\n">>)>>)

\* a variant of ExceptHandler that lets the failures of poller.result()
\* through unwrapped
ExceptHandlerNarrow(tried) ==
    IF tried.status = "raised" /\ tried.exc # "HttpResponseError"
    THEN [tried EXCEPT !.exc = "RuntimeError", !.cause = tried.exc]
    ELSE tried

\* except Exception as e: raise RuntimeError(f"Failed to extract text: {e}")
ExceptHandler(tried) ==
    IF tried.status = "raised"
    THEN [tried EXCEPT !.exc = "RuntimeError", !.cause = tried.exc]
    ELSE tried

\* extract_text(file_path) in the environment e; the text returned is parts[1]
extract_text(e) ==
    IF ~e.path_exists THEN TextRaised("FileNotFoundError", FALSE)
    ELSE ExceptHandler(TryBody(e))

\* ---------------------------------------------------------------------
\* test_pdf_pipeline: the pipeline driver
\* ---------------------------------------------------------------------

\* dict.get(key)
Get(d, key) == IF key \in DOMAIN d THEN d[key] ELSE JNull

\* a variant of IsInvoice that takes every type but "unknown" for an invoice
IsInvoiceNotUnknown(result) == Get(result.fields, K_document_type) # JStr(S_unknown)

\* router_result.get("document_type") == "invoice"
IsInvoice(result) == Get(result.fields, K_document_type) = JStr(S_invoice)

\* the answers of the backend to the requests of the driver's two agents
DriverWrappers == {NoWrapper} \cup {[lead |-> S_fence_json, trail |-> S_fence]}

RouterBodies == FixedBodies \cup {<<"{">> \o mem \o <<"}">> : mem \in Members}

InvoiceBodies ==
    {B_invoice_full, B_invoice_fenced_value, B_array, B_prose, <<"{">> \o M_error \o <<"}">>}

NoAnswer == [wrapper |-> NoWrapper, body |-> <<>>]

NoEnvironment ==
    [path_exists |-> FALSE, endpoint |-> "unset", key |-> "unset", fault |-> NoFault, pages |-> <<>>]

NotReported == [printed |-> FALSE, value |-> JNull]

\* ---------------------------------------------------------------------
\* State
\* ---------------------------------------------------------------------

VARIABLES
    answer,         \* the backend's answer to the agents: a body in a wrapper
    router_result,  \* outcome of RouterAgent.classify
    extraction,     \* outcome of InvoiceAgent.extract
    env,            \* the file system, the secrets and the OCR backend of a driver run
    text,           \* outcome of extract_text
    pc,             \* position of the driver in its script
    calls,          \* the operations the driver has invoked, in order
    reported        \* the type printed by the driver's else branch

vars == <<answer, router_result, extraction, env, text, pc, calls, reported>>

driver_vars == <<env, text, pc, calls, reported>>

\* response.content[0].text
ResponseText == Wrap(answer.wrapper, answer.body)

\* ---------------------------------------------------------------------
\* The agents called on their own, as their __main__ blocks and
\* test_router.py call them
\* ---------------------------------------------------------------------

Init ==
    /\ answer \in [wrapper : Wrappers, body : Bodies]
    /\ router_result = NotCalled
    /\ extraction = NotCalled
    /\ env = NoEnvironment
    /\ text = TextNotCalled
    /\ pc = "agents"
    /\ calls = <<>>
    /\ reported = NotReported

\* agent.classify(doc_text): the backend answers with the response text
Classify ==
    /\ pc = "agents"
    /\ router_result = NotCalled
    /\ router_result' = classify(BackendText(ResponseText))
    /\ UNCHANGED <<answer, extraction, driver_vars>>

\* agent.classify(doc_text): the call to the backend raises
ClassifyBackendFails ==
    /\ pc = "agents"
    /\ router_result = NotCalled
    /\ router_result' = classify(BackendFailure)
    /\ UNCHANGED <<answer, extraction, driver_vars>>

\* agent.extract(test_invoice): the backend answers with the response text
Extract ==
    /\ pc = "agents"
    /\ extraction = NotCalled
    /\ extraction' = extract(BackendText(ResponseText))
    /\ UNCHANGED <<answer, router_result, driver_vars>>

\* agent.extract(test_invoice): the call to the backend raises
ExtractBackendFails ==
    /\ pc = "agents"
    /\ extraction = NotCalled
    /\ extraction' = extract(BackendFailure)
    /\ UNCHANGED <<answer, router_result, driver_vars>>

Next ==
    \/ Classify
    \/ ClassifyBackendFails
    \/ Extract
    \/ ExtractBackendFails

Spec == Init /\ [][Next]_vars

\* ---------------------------------------------------------------------
\* A run of the pipeline driver
\* ---------------------------------------------------------------------

PipelineInit ==
    /\ answer = NoAnswer
    /\ router_result = NotCalled
    /\ extraction = NotCalled
    /\ env \in Environments
    /\ text = TextNotCalled
    /\ pc = "step1"
    /\ calls = <<>>
    /\ reported = NotReported

\* Step 1: text = extract_text('Invoice INV-0911.pdf'); an exception ends
\* the script
ExtractTextStep ==
    /\ pc = "step1"
    /\ text' = extract_text(env)
    /\ calls' = Append(calls, "extract_text")
    /\ pc' = IF text'.status = "returned" THEN "step2" ELSE "aborted"
    /\ UNCHANGED <<answer, router_result, extraction, env, reported>>

\* Step 2: router_result = RouterAgent().classify(text), the backend
\* answering with a text
ClassifyStep ==
    /\ pc = "step2"
    /\ answer' \in [wrapper : DriverWrappers, body : RouterBodies]
    /\ router_result' = classify(BackendText(Wrap(answer'.wrapper, answer'.body)))
    /\ calls' = Append(calls, "classify")
    /\ pc' = IF router_result'.status = "returned" THEN "step3" ELSE "aborted"
    /\ UNCHANGED <<extraction, env, text, reported>>

\* Step 2, the call to the backend raising
ClassifyStepBackendFails ==
    /\ pc = "step2"
    /\ router_result' = classify(BackendFailure)
    /\ calls' = Append(calls, "classify")
    /\ pc' = "aborted"
    /\ UNCHANGED <<answer, extraction, env, text, reported>>

\* Step 3, the if branch: extraction = InvoiceAgent().extract(text)
ExtractInvoiceStep ==
    /\ pc = "step3"
    /\ IsInvoice(router_result.value)
    /\ \E reply \in {BackendFailure}
                    \cup {BackendText(Wrap(w, b)) : w \in DriverWrappers, b \in InvoiceBodies} :
           extraction' = extract(reply)
    /\ calls' = Append(calls, "extract")
    /\ pc' = IF extraction'.status = "returned" THEN "done" ELSE "aborted"
    /\ UNCHANGED <<answer, router_result, env, text, reported>>

\* Step 3, the else branch: the detected type is printed
SkipInvoiceStep ==
    /\ pc = "step3"
    /\ ~IsInvoice(router_result.value)
    /\ reported' = [printed |-> TRUE, value |-> Get(router_result.value.fields, K_document_type)]
    /\ pc' = "done"
    /\ UNCHANGED <<answer, router_result, extraction, env, text, calls>>

PipelineNext ==
    \/ ExtractTextStep
    \/ ClassifyStep
    \/ ClassifyStepBackendFails
    \/ ExtractInvoiceStep
    \/ SkipInvoiceStep

PipelineSpec == PipelineInit /\ [][PipelineNext]_vars

\* ---------------------------------------------------------------------
\* Properties of the agents
\* ---------------------------------------------------------------------

\* classify was given an answer by the backend and has finished
Classified == router_result.status # "none" /\ router_result.exc # "APIError"

\* extract was given an answer by the backend and has finished
Extracted == extraction.status # "none" /\ extraction.exc # "APIError"

\* what json.loads makes of the raw response text
ParsedRaw == json_loads(ResponseText)

\* what json.loads makes of the body of the answer, without its wrapper
ParsedBody == json_loads(answer.body)

IsPrefix(e, txt) == Len(e) <= Len(txt) /\ e = SubSeq(txt, 1, Len(e))

\* the diagnostic d is the explanatory prefix followed by an excerpt of txt
\* of at most 200 characters
IsDiagnosticOf(d, txt) ==
    /\ d.t = "str"
    /\ IsPrefix(S_failed, d.s)
    /\ LET e == SubSeq(d.s, Len(S_failed) + 1, Len(d.s))
       IN Len(e) <= MaxExcerpt /\ IsPrefix(e, txt)

\* C1: whenever classify returns a result that has a document_type, it is
\* one of the six DOCUMENT_TYPES; any other value the model emitted has been
\* replaced by "unknown" with confidence 0.0
C1_DocumentTypeInEnum ==
    (router_result.status = "returned" /\ K_document_type \in DOMAIN router_result.value.fields)
    => LET f == router_result.value.fields
       IN /\ f[K_document_type].t = "str"
          /\ f[K_document_type].s \in DOCUMENT_TYPES
          /\ (/\ ParsedRaw.ok
              /\ ParsedRaw.val.t = "obj"
              /\ K_document_type \in DOMAIN ParsedRaw.val.fields
              /\ ParsedRaw.val.fields[K_document_type] \notin {JStr(d) : d \in DOCUMENT_TYPES})
             => (/\ f[K_document_type] = JStr(S_unknown)
                 /\ K_confidence \in DOMAIN f
                 /\ f[K_confidence] = JNum(0, 0))

\* C2: every result classify returns has the seven declared keys and every
\* result extract returns has the twelve declared invoice keys
C2_AllKeysPresent ==
    /\ router_result.status = "returned" => RouterKeys \subseteq DOMAIN router_result.value.fields
    /\ extraction.status = "returned" => InvoiceKeys \subseteq DOMAIN extraction.value.fields

\* C3: every result classify or extract returns, parsed or fallback, carries
\* the agent's own {model, prompt_version} under "_meta", whatever "_meta"
\* the model's JSON had
C3_MetaAlwaysAgents ==
    /\ router_result.status = "returned"
       => /\ K_meta \in DOMAIN router_result.value.fields
          /\ router_result.value.fields[K_meta] = RouterMeta
    /\ extraction.status = "returned"
       => /\ K_meta \in DOMAIN extraction.value.fields
          /\ extraction.value.fields[K_meta] = InvoiceMeta

\* C3 witness: both agents have returned a result for a response whose JSON
\* object has a "_meta" entry of its own
C3_Witness ==
    /\ router_result.status = "returned"
    /\ extraction.status = "returned"
    /\ ParsedRaw.ok
    /\ ParsedRaw.val.t = "obj"
    /\ K_meta \in DOMAIN ParsedRaw.val.fields
    /\ ParsedRaw.val.fields[K_meta] # RouterMeta

ParsedStripped == json_loads(StripFences(ResponseText))

\* C5: a result of extract has an error field if and only if the response
\* could not be parsed; it is then the invoice default, and error carries
\* an excerpt of the raw response, a prefix of it of at most 200 characters
C5_ErrorIffUnparsable ==
    extraction.status = "returned"
    => LET f == extraction.value.fields
       IN /\ (K_error \in DOMAIN f) <=> ~ParsedStripped.ok
          /\ ~ParsedStripped.ok
             => /\ DOMAIN f = InvoiceKeys \cup {K_error, K_meta}
                /\ \A key \in InvoiceStringKeys \cup InvoiceNumberKeys : f[key] = JNull
                /\ f[K_line_items] = JArr(<<>>)
                /\ IsDiagnosticOf(f[K_error], ResponseText)

\* the answer is a valid JSON object between the fence markers ```json and ```
FencedObject ==
    /\ answer.wrapper \in FenceWrappers
    /\ ParsedBody.ok
    /\ ParsedBody.val.t = "obj"

\* C7: for a valid JSON object wrapped in ```json ... ``` extract returns
\* the fields of that object and no error field, and classify returns its
\* fallback, "unknown" with confidence 0.0
C7_FenceAsymmetry ==
    FencedObject
    => /\ Extracted
          => /\ extraction.status = "returned"
             /\ LET f == extraction.value.fields
                    obj == ParsedBody.val.fields
                IN /\ K_error \notin DOMAIN f
                   /\ DOMAIN f = (DOMAIN obj) \cup {K_meta}
                   /\ \A key \in (DOMAIN obj) \ {K_meta} : f[key] = obj[key]
       /\ Classified
          => /\ router_result.status = "returned"
             /\ router_result.value.fields[K_document_type] = JStr(S_unknown)
             /\ router_result.value.fields[K_confidence] = JNum(0, 0)

IsNullOr(v, tag) == v.t \in {"null", tag}

\* the ClassificationResult shape the system prompt of classify asks for
MatchesRouterSchema(v) ==
    /\ v.t = "obj"
    /\ DOMAIN v.fields = RouterKeys
    /\ v.fields[K_document_type] \in {JStr(d) : d \in DOCUMENT_TYPES}
    /\ v.fields[K_confidence].t = "num"
    /\ \A key \in {K_vendor_name, K_project_name, K_document_date, K_reasoning} :
           IsNullOr(v.fields[key], "str")
    /\ IsNullOr(v.fields[K_amount], "num")

\* the invoice shape the system prompt of extract asks for
MatchesInvoiceSchema(v) ==
    /\ v.t = "obj"
    /\ DOMAIN v.fields = InvoiceKeys
    /\ \A key \in InvoiceStringKeys : IsNullOr(v.fields[key], "str")
    /\ \A key \in InvoiceNumberKeys : IsNullOr(v.fields[key], "num")
    /\ v.fields[K_line_items].t = "arr"
    /\ \A i \in 1..Len(v.fields[K_line_items].items) : v.fields[K_line_items].items[i].t = "obj"

\* C8: for a response that is a valid JSON object of the declared schema,
\* every declared field of the result equals the value parsed from the
\* response, also when a string value contains ```
C8_FieldsEqualParsed ==
    /\ (Classified /\ ParsedRaw.ok /\ MatchesRouterSchema(ParsedRaw.val))
       => /\ router_result.status = "returned"
          /\ \A key \in RouterKeys :
                 router_result.value.fields[key] = ParsedRaw.val.fields[key]
    /\ (Extracted /\ ParsedRaw.ok /\ MatchesInvoiceSchema(ParsedRaw.val))
       => /\ extraction.status = "returned"
          /\ \A key \in InvoiceKeys :
                 extraction.value.fields[key] = ParsedRaw.val.fields[key]

\* ---------------------------------------------------------------------
\* Properties of the pipeline driver and of extract_text
\* ---------------------------------------------------------------------

IsPrefixOfCalls(order) == Len(calls) <= Len(order) /\ calls = SubSeq(order, 1, Len(calls))

Invoked(op) == \E i \in 1..Len(calls) : calls[i] = op

RunOver == pc \in {"done", "aborted"}

\* text extraction and classification completed and the type is "invoice"
InvoiceClassified ==
    /\ text.status = "returned"
    /\ router_result.status = "returned"
    /\ Get(router_result.value.fields, K_document_type) = JStr(S_invoice)

\* C6: the driver calls extract_text, then classify, then at most once
\* extract; extract is invoked exactly when text extraction and
\* classification completed with document_type "invoice", and for any other
\* classification the detected type is reported instead
C6_PipelineOrder ==
    /\ IsPrefixOfCalls(<<"extract_text", "classify", "extract">>)
    /\ Invoked("extract") => InvoiceClassified
    /\ RunOver => (Invoked("extract") <=> InvoiceClassified)
    /\ (RunOver /\ router_result.status = "returned" /\ ~InvoiceClassified)
       => /\ reported.printed
          /\ reported.value = Get(router_result.value.fields, K_document_type)
    /\ reported.printed => ~Invoked("extract")

\* C6 witness: a finished run in which extract was invoked
C6_Witness ==
    /\ pc = "done"
    /\ calls = <<"extract_text", "classify", "extract">>
    /\ extraction.status = "returned"

\* the OCR backend fails at one of its steps
BackendFails ==
    \/ env.fault \in {"client", "submit", "result"}
    \/ \E i \in 1..Len(env.pages) : env.pages[i].kind = "broken"

SecretsConfigured == ~Falsy(env.endpoint) /\ ~Falsy(env.key)

\* C9: with the path existing and both secrets configured, a failure of
\* the OCR backend at any step makes extract_text raise the one wrapping
\* error kind (RuntimeError) with the backend's exception as its cause, and
\* no text is returned
C9_BackendFailureWrapped ==
    (text.status # "none" /\ env.path_exists /\ SecretsConfigured /\ BackendFails)
    => /\ text.status = "raised"
       /\ text.exc = "RuntimeError"
       /\ text.cause = (IF env.fault = NoFault THEN "AttributeError" ELSE FaultExc(env.fault))
       /\ text.parts = <<>>
       /\ ~Invoked("classify")

\* C9 witness: the analysis result could not be awaited, and extract_text
\* has raised
C9_Witness ==
    /\ env.path_exists
    /\ SecretsConfigured
    /\ env.fault = "result"
    /\ text.status = "raised"

\* C10: with the path existing and a secret absent, extract_text raises the
\* configuration error (ValueError), a kind other than the RuntimeError of
\* OCR backend failures, and submits nothing to the OCR backend
C10_MissingSecretIsConfigurationError ==
    (text.status # "none" /\ env.path_exists /\ (env.endpoint = "unset" \/ env.key = "unset"))
    => /\ text.status = "raised"
       /\ text.exc = "ValueError"
       /\ text.exc # "RuntimeError"
       /\ ~text.sent

\* C11: whenever the backend call succeeds, classify and extract return a
\* result and do not raise, whatever the response text is, valid JSON that
\* is not an object included; the only error either operation shows its
\* caller is the failure of the backend call
C11_NeverRaisesOnContent ==
    /\ (router_result.status = "raised" => router_result.exc = "APIError")
    /\ (extraction.status = "raised" => extraction.exc = "APIError")
    /\ (Classified => router_result.status = "returned")
    /\ (Extracted => extraction.status = "returned")

====
